---------------------------- MODULE Spec2Model ----------------------------
(***************************************************************************)
(* A model of the kc-aeads transforms: the CX[E] and HKDF committing PRFs, *)
(* the UtC transform over AES-GCM, and the two HtE transforms.              *)
(*                                                                         *)
(* The transforms are modelled operation by operation from the Rust code.  *)
(* The primitives they call (the block cipher, AES-GCM, HKDF, HMAC) live    *)
(* in other crates; they are modelled symbolically, as in the Dolev-Yao     *)
(* tradition: the output of a keyed primitive is a term naming the          *)
(* primitive, its key and its input, so two outputs are equal exactly when  *)
(* they come from the same call.  Bytes are closed under XOR.               *)
(***************************************************************************)
EXTENDS Integers, Sequences, FiniteSets, TLC

(***************************************************************************)
(* Bytes.  A byte is the XOR of a concrete u8 and a set of symbolic bytes   *)
(* (atoms); the set holds the atoms that occur an odd number of times.      *)
(***************************************************************************)
RECURSIVE BitXor(_, _)
BitXor(x, y) ==
    IF x = 0 THEN y
    ELSE IF y = 0 THEN x
    ELSE ((x + y) % 2) + 2 * BitXor(x \div 2, y \div 2)

CB(n) == [c |-> n, a |-> {}]

\* A sequence given as a function, as the tuple of its elements.
AsSeq(f) == f \o << >>

XorByte(x, y) == [c |-> BitXor(x.c, y.c), a |-> (x.a \ y.a) \cup (y.a \ x.a)]

XorSeq(s, t) == AsSeq([i \in 1..Len(s) |-> XorByte(s[i], t[i])])

Zeros(n) == AsSeq([i \in 1..n |-> CB(0)])

Ascii(codes) == AsSeq([i \in 1..Len(codes) |-> CB(codes[i])])

(***************************************************************************)
(* Terms.  A term is <<name, key, data>>; byte i of its output is the atom  *)
(* <<term, i>>.  Inside a term, and in the state, byte strings are kept     *)
(* run-length encoded (Ref): a run is n consecutive output bytes of one     *)
(* term XORed with n concrete bytes x, or n concrete bytes alone, or one    *)
(* byte b of several atoms.  Unref gives the bytes back.                    *)
(***************************************************************************)
AtomOf(b) == CHOOSE x \in b.a : TRUE

\* b continues, at distance d, the run that starts with the byte first.
SameRun(first, b, d) ==
    IF first.a = {} THEN b.a = {}
    ELSE /\ Cardinality(b.a) = 1
         /\ AtomOf(b) = <<AtomOf(first)[1], AtomOf(first)[2] + d>>

RECURSIVE RunEnd(_, _, _)
RunEnd(s, i, m) ==
    IF m < Len(s) /\ SameRun(s[i], s[m + 1], (m + 1) - i)
    THEN RunEnd(s, i, m + 1)
    ELSE m

RECURSIVE RLEFrom(_, _)
RLEFrom(s, i) ==
    IF i > Len(s) THEN << >>
    ELSE IF Cardinality(s[i].a) > 1
    THEN <<[t |-> << >>, from |-> 0, x |-> << >>, b |-> <<s[i]>>]>>
             \o RLEFrom(s, i + 1)
    ELSE LET j == RunEnd(s, i, i)
         IN  <<[t    |-> IF s[i].a = {} THEN << >> ELSE AtomOf(s[i])[1],
                from |-> IF s[i].a = {} THEN 0 ELSE AtomOf(s[i])[2],
                x    |-> AsSeq([m \in 1..((j - i) + 1) |-> s[i + (m - 1)].c]),
                b    |-> << >>]>>
                 \o RLEFrom(s, j + 1)

Ref(s) == RLEFrom(s, 1)

RunBytes(r) ==
    IF r.b # << >> THEN r.b
    ELSE AsSeq([m \in 1..Len(r.x) |->
                   [c |-> r.x[m],
                    a |-> IF r.t = << >> THEN {} ELSE {<<r.t, r.from + (m - 1)>>}]])

RECURSIVE UnrefFrom(_, _)
UnrefFrom(r, i) ==
    IF i > Len(r) THEN << >> ELSE RunBytes(r[i]) \o UnrefFrom(r, i + 1)

Unref(r) == UnrefFrom(r, 1)

Term(name, key, data) == <<name, Ref(key), Ref(data)>>

\* Bytes first..first+n-1 of a term's output.
Out(T, first, n) ==
    AsSeq([i \in 1..n |-> [c |-> 0, a |-> {<<T, first + (i - 1)>>}]])

(***************************************************************************)
(* Sizes.  typenum sizes are plain numbers here; AddLength is +.            *)
(***************************************************************************)
AesGcmNonceSize == 12

AesGcmTagSize == 16

\* BlockSizeUser<BlockSize = U16>: the block size of every cipher UtC accepts.
BlockSize == 16

\* Ciph::KeySize of the three AES variants.
KeySize(ciph) ==
    CASE ciph = "Aes128" -> 16
      [] ciph = "Aes192" -> 24
      [] ciph = "Aes256" -> 32

DoubleKeySize(ciph) == KeySize(ciph) + KeySize(ciph)

\* Variant: a commitment only as long as the key.
CxComSize_single(ciph) == KeySize(ciph)

CxComSize(ciph) == DoubleKeySize(ciph)

\* Variant: a mask as long as the commitment.
CxMaskSize_double(ciph) == DoubleKeySize(ciph)

CxMaskSize(ciph) == KeySize(ciph)

CxKeySize(ciph) == KeySize(ciph)

UtcTagSize(ciph) == CxComSize(ciph) + AesGcmTagSize

\* Variant: a UtC key twice as long as the cipher's.
UtcKeySize_double(ciph) == DoubleKeySize(ciph)

UtcKeySize(ciph) == KeySize(ciph)

\* <AesGcm<Ciph, U12> as NewAead>::KeySize: AES-GCM is keyed like its cipher.
AesGcmKeySize(ciph) == KeySize(ciph)

\* let mut block_buf = [Block::<Ciph>::default(); 6];
BlockBufLen == 6

\* H::OutputSize of a hash function, M::OutputSize of a MAC.  A MAC named by a
\* hash function is SimpleHmac over it; CmacAes256 is Cmac<Aes256>.
OutputSize(H) ==
    CASE H = "Sha224"     -> 28
      [] H = "Sha256"     -> 32
      [] H = "Sha512"     -> 64
      [] H = "CmacAes256" -> 16

(***************************************************************************)
(* The block cipher: a keyed permutation of blocks.                         *)
(***************************************************************************)
Ciph_new(ciph, key) == [ciph |-> ciph, key |-> key]

encrypt_block(inst, X) == Out(Term("E", inst.key, X), 1, BlockSize)

(***************************************************************************)
(* CX[E], CxPrf::prf.  The result carries panic = TRUE when the Rust code   *)
(* panics (a slice out of range, or from_exact_iter(..).unwrap() on an      *)
(* iterator of the wrong length).                                           *)
(***************************************************************************)
\* Variant: the counter byte is written first and the message over it.
PadBlock_msg_last(MsgSize, msg, i) ==
    AsSeq([j \in 1..BlockSize |->
              IF j <= MsgSize THEN msg[j]
              ELSE IF j = BlockSize THEN CB(i % 256)
              ELSE CB(0)])

\* pad(M, i): the message, zeros, and (i as u8) in the last byte of the block.
PadBlock(MsgSize, msg, i) ==
    AsSeq([j \in 1..BlockSize |->
              IF j = BlockSize THEN CB(i % 256)
              ELSE IF j <= MsgSize THEN msg[j]
              ELSE CB(0)])

\* blocks.iter().skip(skip).take(cnt).flat_map(IntoIterator::into_iter)
FlatBlocks(blocks, skip, cnt) ==
    AsSeq([j \in 1..(cnt * BlockSize) |->
              blocks[skip + 1 + ((j - 1) \div BlockSize)][((j - 1) % BlockSize) + 1]])

PrfPanic == [panic |-> TRUE, com |-> << >>, mask |-> << >>]

\* Variant: a constructor that checks the key size against the block size.
CxPrf_new_checked(ciph, key) ==
    [panic |-> KeySize(ciph) % BlockSize # 0, ciph |-> Ciph_new(ciph, key)]

\* KeyInit::new for CxPrf: builds the cipher; nothing is checked.
CxPrf_new(ciph, key) == [panic |-> FALSE, ciph |-> Ciph_new(ciph, key)]

\* Variant: every encrypted block is XORed with its input block.
CxPrf_prf_xor_all(inst, MsgSize, msg) ==
    LET num_com_blocks   == CxComSize(inst.ciph) \div BlockSize
        num_mask_blocks  == CxMaskSize(inst.ciph) \div BlockSize
        num_total_blocks == num_com_blocks + num_mask_blocks
        V == AsSeq([i \in 1..num_total_blocks |->
                       XorSeq(encrypt_block(inst, PadBlock(MsgSize, msg, i)),
                              PadBlock(MsgSize, msg, i))])
    IN  IF \/ num_total_blocks > BlockBufLen
           \/ num_com_blocks * BlockSize # CxComSize(inst.ciph)
           \/ num_mask_blocks * BlockSize # CxMaskSize(inst.ciph)
        THEN PrfPanic
        ELSE [panic |-> FALSE,
              com   |-> FlatBlocks(V, 0, num_com_blocks),
              mask  |-> FlatBlocks(V, num_com_blocks, num_mask_blocks)]

CxPrf_prf(inst, MsgSize, msg) ==
    LET ComSize  == CxComSize(inst.ciph)
        MaskSize == CxMaskSize(inst.ciph)
        num_com_blocks   == ComSize \div BlockSize
        num_mask_blocks  == MaskSize \div BlockSize
        num_total_blocks == num_com_blocks + num_mask_blocks
        X == AsSeq([i \in 1..num_total_blocks |-> PadBlock(MsgSize, msg, i)])
        block0 == X[1]
        E == AsSeq([i \in 1..num_total_blocks |-> encrypt_block(inst, X[i])])
        V == AsSeq([i \in 1..num_total_blocks |->
                       IF i = 1 THEN XorSeq(E[1], block0) ELSE E[i]])
    IN  IF \/ num_total_blocks > BlockBufLen
           \/ num_total_blocks = 0
           \/ MsgSize > BlockSize
        THEN PrfPanic
        ELSE IF \/ num_com_blocks * BlockSize # ComSize
                \/ num_mask_blocks * BlockSize # MaskSize
        THEN PrfPanic
        ELSE [panic |-> FALSE,
              com   |-> FlatBlocks(V, 0, num_com_blocks),
              mask  |-> FlatBlocks(V, num_com_blocks, num_mask_blocks)]

(***************************************************************************)
(* HKDF and HMAC.                                                           *)
(***************************************************************************)
ExtractName(H) == IF H = "Sha256" THEN "HkdfExtract-Sha256" ELSE "HkdfExtract-Sha512"

ExpandName(H) == IF H = "Sha256" THEN "HkdfExpand-Sha256" ELSE "HkdfExpand-Sha512"

HmacName(H) ==
    CASE H = "Sha224"     -> "Hmac-Sha224"
      [] H = "Sha256"     -> "Hmac-Sha256"
      [] H = "Sha512"     -> "Hmac-Sha512"
      [] H = "CmacAes256" -> "Cmac-Aes256"

\* <M as KeyInit>::new_from_slice(key).is_ok(): HMAC takes a key of any
\* length, CMAC only a key of its cipher.
MacAcceptsKey(H, n) == IF H = "CmacAes256" THEN n = KeySize("Aes256") ELSE TRUE

\* SimpleHkdf::extract(Some(salt), ikm).1: the HKDF object holding the prk.
SimpleHkdf_extract(H, salt, ikm) ==
    [H |-> H, prk |-> Out(Term(ExtractName(H), salt, ikm), 1, OutputSize(H))]

\* hkdf.expand_multi_info(&[..], &mut okm): fails when okm is longer than
\* 255 hash outputs.
expand_multi_info(hkdf, info, len) ==
    IF len > 255 * OutputSize(hkdf.H)
    THEN [ok |-> FALSE, okm |-> << >>]
    ELSE [ok |-> TRUE, okm |-> Out(Term(ExpandName(hkdf.H), hkdf.prk, info), 1, len)]

\* new_from_slice(key), update(a), update(b), finalize().into_bytes()
SimpleHmac_digest(H, key, msg) == Out(Term(HmacName(H), key, msg), 1, OutputSize(H))

(***************************************************************************)
(* HKDF-ComPRF, HkdfComPrf<H, MaskSize, MsgSize>.                           *)
(***************************************************************************)
HkdfComPrfKeySize(MaskSize) == MaskSize

HkdfComPrfComSize(MaskSize) ==
    HkdfComPrfKeySize(MaskSize) + HkdfComPrfKeySize(MaskSize)

\* const EXTRACT_DOMAIN_SEP: &[u8] = b"HkdfComPrf";
HkdfComPrfDomainSep == Ascii(<<72, 107, 100, 102, 67, 111, 109, 80, 114, 102>>)

HkdfComPrf_new(H, MaskSize, key) ==
    [panic |-> FALSE, H |-> H, MaskSize |-> MaskSize,
     hkdf |-> SimpleHkdf_extract(H, HkdfComPrfDomainSep, key)]

HkdfComPrf_prf(inst, msg) ==
    LET com  == expand_multi_info(inst.hkdf, Ascii(<<80>>) \o msg,
                                  HkdfComPrfComSize(inst.MaskSize))
        mask == expand_multi_info(inst.hkdf, Ascii(<<76>>) \o msg, inst.MaskSize)
    IN  IF ~com.ok \/ ~mask.ok
        THEN PrfPanic
        ELSE [panic |-> FALSE, com |-> com.okm, mask |-> mask.okm]

(***************************************************************************)
(* AES-GCM with the clobbering-decrypt interface.  Encryption XORs a        *)
(* keystream into the buffer; the tag authenticates nonce, associated data  *)
(* and ciphertext.  AES-GCM does not commit to its key: from two keys one   *)
(* can compute a one-block ciphertext and a tag that both keys accept       *)
(* (GcmCollision).                                                          *)
(***************************************************************************)
AesGcm_new(ciph, key) == [ciph |-> ciph, key |-> key]

\* The length limits of GCM (P_MAX, A_MAX = 2^36 bytes), counted in MiB.
GcmTooLong(n) == n \div 2^20 > 2^16

Keystream(gcm, nonce, n) == Out(Term("GcmCtr", gcm.key, nonce), 1, n)

GcmTag(gcm, nonce, aad, ct) ==
    Out(Term("GcmTag", gcm.key,
             nonce \o aad \o ct \o <<CB(Len(aad) % 256), CB(Len(ct) % 256)>>),
        1, AesGcmTagSize)

GcmCollisionTerm(k1, k2, nonce, aad) ==
    <<"GcmCollision", Ref(k1), Ref(k2), Ref(nonce \o aad)>>

GcmCollision(k1, k2, nonce, aad) ==
    [ct  |-> Out(GcmCollisionTerm(k1, k2, nonce, aad), 1, BlockSize),
     tag |-> Out(GcmCollisionTerm(k1, k2, nonce, aad), BlockSize + 1, AesGcmTagSize)]

IsGcmCollision(gcm, nonce, aad, ct, tag) ==
    /\ Len(ct) = BlockSize
    /\ Cardinality(tag[1].a) = 1
    /\ LET T == AtomOf(tag[1])[1]
       IN  /\ Len(T) = 4
           /\ T[1] = "GcmCollision"
           /\ T[2] = Ref(gcm.key) \/ T[3] = Ref(gcm.key)
           /\ T[4] = Ref(nonce \o aad)
           /\ ct = Out(T, 1, BlockSize)
           /\ tag = Out(T, BlockSize + 1, AesGcmTagSize)

GcmTagMatches(gcm, nonce, aad, ct, tag) ==
    \/ tag = GcmTag(gcm, nonce, aad, ct)
    \/ IsGcmCollision(gcm, nonce, aad, ct, tag)

AesGcm_encrypt_in_place_detached(gcm, nonce, aad, buffer) ==
    LET ct == XorSeq(buffer, Keystream(gcm, nonce, Len(buffer)))
    IN  IF GcmTooLong(Len(buffer)) \/ GcmTooLong(Len(aad))
        THEN [ok |-> FALSE, buf |-> buffer, tag |-> << >>]
        ELSE [ok |-> TRUE, buf |-> ct, tag |-> GcmTag(gcm, nonce, aad, ct)]

\* Writes the candidate plaintext whatever the tag, and reports the tag check.
AesGcm_clobbering_decrypt(gcm, nonce, aad, buffer, tag) ==
    IF GcmTooLong(Len(buffer)) \/ GcmTooLong(Len(aad))
    THEN [ok |-> FALSE, success |-> FALSE, buf |-> buffer]
    ELSE [ok |-> TRUE,
          success |-> GcmTagMatches(gcm, nonce, aad, buffer, tag),
          buf |-> XorSeq(buffer, Keystream(gcm, nonce, Len(buffer)))]

\* Re-encrypts the buffer: the keystream XORed in again.
AesGcm_unclobber(gcm, nonce, buffer, tag) ==
    XorSeq(buffer, Keystream(gcm, nonce, Len(buffer)))

(***************************************************************************)
(* The UtC transform over AES-GCM, UtcOverAesGcm<Ciph>.                     *)
(***************************************************************************)
pack_tag(ciph, gcm_tag, prf_com) ==
    AsSeq([i \in 1..UtcTagSize(ciph) |->
              IF i <= AesGcmTagSize THEN gcm_tag[i] ELSE prf_com[i - AesGcmTagSize]])

\* Variant: the tag split as commitment first, AES-GCM tag last.
unpack_tag_com_first(ciph, utc_tag) ==
    <<SubSeq(utc_tag, CxComSize(ciph) + 1, Len(utc_tag)),
      SubSeq(utc_tag, 1, CxComSize(ciph))>>

unpack_tag(ciph, utc_tag) ==
    <<SubSeq(utc_tag, 1, AesGcmTagSize),
      SubSeq(utc_tag, AesGcmTagSize + 1, Len(utc_tag))>>

\* subtle::ConstantTimeEq on byte arrays.
ct_eq(x, y) == x = y

Utc_new(ciph, key) == Ciph_new(ciph, key)

EncPanic(buffer) == [res |-> "Panic", buf |-> buffer, tag |-> << >>]

\* Variant: the associated data is not handed to the base AEAD.
Utc_encrypt_dropping_aad(self, nonce, associated_data, buffer) ==
    LET p   == CxPrf_prf(self, AesGcmNonceSize, nonce)
        gcm == AesGcm_new(self.ciph, p.mask)
        e   == AesGcm_encrypt_in_place_detached(gcm, nonce, << >>, buffer)
    IN  IF p.panic THEN EncPanic(buffer)
        ELSE IF ~e.ok THEN [res |-> "Err", buf |-> buffer, tag |-> << >>]
        ELSE [res |-> "Ok", buf |-> e.buf, tag |-> pack_tag(self.ciph, e.tag, p.com)]

Utc_encrypt_in_place_detached(self, nonce, associated_data, buffer) ==
    LET p   == CxPrf_prf(self, AesGcmNonceSize, nonce)
        gcm == AesGcm_new(self.ciph, p.mask)
        e   == AesGcm_encrypt_in_place_detached(gcm, nonce, associated_data, buffer)
    IN  IF p.panic THEN EncPanic(buffer)
        ELSE IF ~e.ok THEN [res |-> "Err", buf |-> buffer, tag |-> << >>]
        ELSE [res |-> "Ok", buf |-> e.buf, tag |-> pack_tag(self.ciph, e.tag, p.com)]

DecPanic(buffer) ==
    [res |-> "Panic", buf |-> buffer, decryption_success |-> FALSE,
     com_matches |-> FALSE, unclobbered |-> FALSE]

\* Variants of decrypt_in_place_detached that differ in when they accept and
\* when they restore the buffer:
\*   "either"        accepts when the tag or the commitment matches;
\*   "tag_only"      accepts when the tag matches;
\*   "no_unclobber"  never restores the buffer;
\*   "unclobber_tag" restores the buffer only when the tag did not match.
Utc_decrypt_variant(self, nonce, associated_data, buffer, tag, how) ==
    LET gcm_tag == unpack_tag(self.ciph, tag)[1]
        prf_com == unpack_tag(self.ciph, tag)[2]
        p   == CxPrf_prf(self, AesGcmNonceSize, nonce)
        gcm == AesGcm_new(self.ciph, p.mask)
        d   == AesGcm_clobbering_decrypt(gcm, nonce, associated_data, buffer, gcm_tag)
        com_matches == ct_eq(prf_com, p.com)
        accept == CASE how = "either"   -> d.success \/ com_matches
                    [] how = "tag_only" -> d.success
                    [] OTHER            -> d.success /\ com_matches
        restore == CASE how = "no_unclobber"  -> FALSE
                     [] how = "unclobber_tag" -> ~d.success
                     [] OTHER                 -> TRUE
    IN  IF p.panic THEN DecPanic(buffer)
        ELSE IF ~d.ok
        THEN [res |-> "Err", buf |-> buffer, decryption_success |-> FALSE,
              com_matches |-> FALSE, unclobbered |-> FALSE]
        ELSE IF accept
        THEN [res |-> "Ok", buf |-> d.buf, decryption_success |-> d.success,
              com_matches |-> com_matches, unclobbered |-> FALSE]
        ELSE [res |-> "Err",
              buf |-> IF restore THEN AesGcm_unclobber(gcm, nonce, d.buf, gcm_tag)
                      ELSE d.buf,
              decryption_success |-> d.success, com_matches |-> com_matches,
              unclobbered |-> restore]

Utc_decrypt_either(self, nonce, associated_data, buffer, tag) ==
    Utc_decrypt_variant(self, nonce, associated_data, buffer, tag, "either")

Utc_decrypt_tag_only(self, nonce, associated_data, buffer, tag) ==
    Utc_decrypt_variant(self, nonce, associated_data, buffer, tag, "tag_only")

Utc_decrypt_no_unclobber(self, nonce, associated_data, buffer, tag) ==
    Utc_decrypt_variant(self, nonce, associated_data, buffer, tag, "no_unclobber")

Utc_decrypt_unclobber_tag(self, nonce, associated_data, buffer, tag) ==
    Utc_decrypt_variant(self, nonce, associated_data, buffer, tag, "unclobber_tag")

Utc_decrypt_in_place_detached(self, nonce, associated_data, buffer, tag) ==
    LET gcm_tag == unpack_tag(self.ciph, tag)[1]
        prf_com == unpack_tag(self.ciph, tag)[2]
        p   == CxPrf_prf(self, AesGcmNonceSize, nonce)
        gcm == AesGcm_new(self.ciph, p.mask)
        d   == AesGcm_clobbering_decrypt(gcm, nonce, associated_data, buffer, gcm_tag)
        com_matches == ct_eq(prf_com, p.com)
    IN  IF p.panic THEN DecPanic(buffer)
        ELSE IF ~d.ok
        THEN [res |-> "Err", buf |-> buffer, decryption_success |-> FALSE,
              com_matches |-> FALSE, unclobbered |-> FALSE]
        ELSE IF d.success /\ com_matches
        THEN [res |-> "Ok", buf |-> d.buf, decryption_success |-> d.success,
              com_matches |-> com_matches, unclobbered |-> FALSE]
        ELSE [res |-> "Err", buf |-> AesGcm_unclobber(gcm, nonce, d.buf, gcm_tag),
              decryption_success |-> d.success, com_matches |-> com_matches,
              unclobbered |-> TRUE]

(***************************************************************************)
(* The HtE transforms over UtC: HkdfHte<UtcOverAesGcm<Ciph>, H> and         *)
(* MacHte<UtcOverAesGcm<Ciph>, SimpleHmac<H>>.  A is the cipher of the      *)
(* inner UtC.                                                               *)
(***************************************************************************)
\* const EXTRACT_DOMAIN_SEP: &[u8] = b"HkdfHte";
HkdfHteDomainSep == Ascii(<<72, 107, 100, 102, 72, 116, 101>>)

HkdfHte_new(A, H, key) ==
    [A |-> A, H |-> H, mac |-> SimpleHkdf_extract(H, HkdfHteDomainSep, key)]

\* Variant: the key derived from the nonce alone.
HkdfHte_enc_key_nonce_only(self, nonce, associated_data) ==
    expand_multi_info(self.mac, nonce, UtcKeySize(self.A))

\* The key derivation both HkdfHte methods start with.
HkdfHte_enc_key(self, nonce, associated_data) ==
    expand_multi_info(self.mac, nonce \o associated_data, UtcKeySize(self.A))

HkdfHte_encrypt_in_place_detached(self, nonce, associated_data, buffer) ==
    LET enc_key == HkdfHte_enc_key(self, nonce, associated_data)
        ciph    == Utc_new(self.A, enc_key.okm)
    IN  IF ~enc_key.ok THEN EncPanic(buffer)
        ELSE Utc_encrypt_in_place_detached(ciph, nonce, << >>, buffer)

\* Variant: the associated data is also handed to the inner cipher.
HkdfHte_decrypt_passing_aad(self, nonce, associated_data, buffer, tag) ==
    LET enc_key == HkdfHte_enc_key(self, nonce, associated_data)
        ciph    == Utc_new(self.A, enc_key.okm)
    IN  IF ~enc_key.ok THEN DecPanic(buffer)
        ELSE Utc_decrypt_in_place_detached(ciph, nonce, associated_data, buffer, tag)

HkdfHte_decrypt_in_place_detached(self, nonce, associated_data, buffer, tag) ==
    LET enc_key == HkdfHte_enc_key(self, nonce, associated_data)
        ciph    == Utc_new(self.A, enc_key.okm)
    IN  IF ~enc_key.ok THEN DecPanic(buffer)
        ELSE Utc_decrypt_in_place_detached(ciph, nonce, << >>, buffer, tag)

\* Variant: every pairing of cipher and MAC is accepted.
MacHteBound_none(A, H) == TRUE

\* The bound on the type: A::KeySize: IsLessOrEqual<M::OutputSize>, with
\* LeEq<A::KeySize, M::OutputSize>: NonZero.  A pairing that fails it does not
\* compile.
MacHteBound(A, H) == UtcKeySize(A) <= OutputSize(H)

MacHte_new(A, H, key) == [A |-> A, H |-> H, mac_key |-> key]

\* Variant: the encryption key is the last A::KeySize bytes of the digest.
MacHte_enc_key_tail(self, nonce, associated_data) ==
    LET digest == SimpleHmac_digest(self.H, self.mac_key, nonce \o associated_data)
    IN  SubSeq(digest, Len(digest) - UtcKeySize(self.A) + 1, Len(digest))

\* The MAC of nonce and associated data, truncated to A::KeySize.
MacHte_enc_key(self, nonce, associated_data) ==
    LET digest == SimpleHmac_digest(self.H, self.mac_key, nonce \o associated_data)
    IN  SubSeq(digest, 1, UtcKeySize(self.A))

MacHte_encrypt_in_place_detached(self, nonce, associated_data, buffer) ==
    LET enc_key == MacHte_enc_key(self, nonce, associated_data)
        ciph    == Utc_new(self.A, enc_key)
    IN  IF ~MacAcceptsKey(self.H, Len(self.mac_key)) THEN EncPanic(buffer)
        ELSE Utc_encrypt_in_place_detached(ciph, nonce, << >>, buffer)

MacHte_decrypt_in_place_detached(self, nonce, associated_data, buffer, tag) ==
    LET enc_key == MacHte_enc_key(self, nonce, associated_data)
        ciph    == Utc_new(self.A, enc_key)
    IN  IF ~MacAcceptsKey(self.H, Len(self.mac_key)) THEN DecPanic(buffer)
        ELSE Utc_decrypt_in_place_detached(ciph, nonce, << >>, buffer, tag)

(***************************************************************************)
(* The schemes the crate exports, and the AEAD trait calls on them.         *)
(***************************************************************************)
UtcAes128Gcm == [kind |-> "Utc", ciph |-> "Aes128", H |-> "none"]

UtcAes256Gcm == [kind |-> "Utc", ciph |-> "Aes256", H |-> "none"]

HteUtcAes128Gcm == [kind |-> "HkdfHte", ciph |-> "Aes128", H |-> "Sha256"]

HteUtcAes256Gcm == [kind |-> "HkdfHte", ciph |-> "Aes256", H |-> "Sha512"]

MacHteUtcAes128Gcm == [kind |-> "MacHte", ciph |-> "Aes128", H |-> "Sha256"]

MacHteUtcAes256Gcm == [kind |-> "MacHte", ciph |-> "Aes256", H |-> "Sha512"]

Schemes == {UtcAes128Gcm, UtcAes256Gcm, HteUtcAes128Gcm, HteUtcAes256Gcm,
            MacHteUtcAes128Gcm, MacHteUtcAes256Gcm}

\* <S as NewAead>::KeySize
AeadKeySize(s) == UtcKeySize(s.ciph)

\* <S as AeadCore>::TagSize
AeadTagSize(s) == UtcTagSize(s.ciph)

Aead_new(s, key) ==
    CASE s.kind = "Utc"     -> Utc_new(s.ciph, key)
      [] s.kind = "HkdfHte" -> HkdfHte_new(s.ciph, s.H, key)
      [] s.kind = "MacHte"  -> MacHte_new(s.ciph, s.H, key)

Aead_encrypt(s, self, nonce, associated_data, buffer) ==
    CASE s.kind = "Utc" ->
            Utc_encrypt_in_place_detached(self, nonce, associated_data, buffer)
      [] s.kind = "HkdfHte" ->
            HkdfHte_encrypt_in_place_detached(self, nonce, associated_data, buffer)
      [] s.kind = "MacHte" ->
            MacHte_encrypt_in_place_detached(self, nonce, associated_data, buffer)

Aead_decrypt(s, self, nonce, associated_data, buffer, tag) ==
    CASE s.kind = "Utc" ->
            Utc_decrypt_in_place_detached(self, nonce, associated_data, buffer, tag)
      [] s.kind = "HkdfHte" ->
            HkdfHte_decrypt_in_place_detached(self, nonce, associated_data, buffer, tag)
      [] s.kind = "MacHte" ->
            MacHte_decrypt_in_place_detached(self, nonce, associated_data, buffer, tag)

(***************************************************************************)
(* The inputs the model draws from.                                         *)
(***************************************************************************)
NumKeys == 2

NumNonces == 2

MaxPtLen == 2

MaxAadLen == 1

\* Key k of n bytes: all zero for k = 0, else byte k set to one.
KeyBytes(n, k) == AsSeq([i \in 1..n |-> CB(IF i = k THEN 1 ELSE 0)])

Nonces == {KeyBytes(AesGcmNonceSize, k) : k \in 0..(NumNonces - 1)}

Aads == {AsSeq([i \in 1..n |-> CB(96 + i)]) : n \in 0..MaxAadLen}

\* Plaintexts: "", "h", "hi", ...
Plaintexts == {AsSeq([i \in 1..n |-> CB(103 + i)]) : n \in 0..MaxPtLen}

\* The bits of a u8 the adversary flips: the lowest and the highest.
Bits == {0, 7}

FlipBit(b, bit) == XorByte(b, CB(2^bit))

FlipAt(s, pos, bit) == [s EXCEPT ![pos] = FlipBit(s[pos], bit)]

(***************************************************************************)
(* The state: a sender seals a plaintext under (key, nonce, aad); the       *)
(* message (nonce, aad, buffer, tag) travels; an adversary may instead      *)
(* forge a message, or flip a bit of the one sent; recipients then decrypt  *)
(* their own copy of the message, each under its own context.  Byte strings *)
(* are held run-length encoded.                                             *)
(***************************************************************************)
VARIABLES scheme, key, pt, nonce, aad, buffer, tag, phase, tamper, dec,
          prfInst, prfOut, inst, bufs, calls, msgSize, outs

\* The instance shared by the threads, their buffers and their calls in
\* progress (used by CallSpec, below).
callVars == <<inst, bufs, calls>>

\* The MsgSize of a CxPrf<Ciph, MsgSize> and what prf() returned for each
\* message it was called on (used by PadSpec, below).
padVars == <<msgSize, outs>>

vars == <<scheme, key, pt, nonce, aad, buffer, tag, phase, tamper, dec,
          prfInst, prfOut, inst, bufs, calls, msgSize, outs>>

NoTamper == [kind |-> "none", field |-> "none", pos |-> 0, bit |-> 0]

NoDec == << >>

NoPrf == [panic |-> FALSE, none |-> TRUE]

\* The committing PRFs on their own: CxPrf<Ciph, U12> over the three AES
\* variants, and HkdfComPrf<H, MaskSize, U12> with the mask sized as a key of
\* Ciph.
PrfSchemes ==
    {[kind |-> "CxPrf", ciph |-> c, H |-> "none"] : c \in {"Aes128", "Aes192", "Aes256"}}
        \cup {[kind |-> "HkdfComPrf", ciph |-> "Aes128", H |-> "Sha256"],
              [kind |-> "HkdfComPrf", ciph |-> "Aes256", H |-> "Sha512"]}

IsAead == scheme \in Schemes

\* <S as KeySizeUser>::KeySize of a scheme.
SchemeKeySize(s) ==
    CASE s.kind = "CxPrf"      -> CxKeySize(s.ciph)
      [] s.kind = "HkdfComPrf" -> HkdfComPrfKeySize(KeySize(s.ciph))
      [] OTHER                 -> AeadKeySize(s)

Keys(s) == {KeyBytes(SchemeKeySize(s), k) : k \in 0..(NumKeys - 1)}

Init ==
    /\ scheme \in Schemes \cup PrfSchemes
    /\ key \in {Ref(k) : k \in Keys(scheme)}
    /\ IsAead => key = Ref(KeyBytes(SchemeKeySize(scheme), 0))
    /\ nonce = Ref(KeyBytes(AesGcmNonceSize, 0))
    /\ aad \in {Ref(a) : a \in Aads}
    /\ pt \in {Ref(m) : m \in Plaintexts}
    /\ ~IsAead => aad = << >> /\ pt = << >>
    /\ buffer = pt
    /\ tag = << >>
    /\ phase = "fresh"
    /\ tamper = NoTamper
    /\ dec = NoDec
    /\ prfInst = NoPrf
    /\ prfOut = NoPrf
    /\ inst = NoPrf
    /\ bufs = << >>
    /\ calls = << >>
    /\ msgSize = AesGcmNonceSize
    /\ outs = {}

(***************************************************************************)
(* The committing PRFs: construction, then prf() calls.                     *)
(***************************************************************************)
PrfNew ==
    /\ ~IsAead
    /\ phase = "fresh"
    /\ prfInst' = IF scheme.kind = "CxPrf"
                  THEN CxPrf_new(scheme.ciph, Unref(key))
                  ELSE HkdfComPrf_new(scheme.H, KeySize(scheme.ciph), Unref(key))
    /\ phase' = IF prfInst'.panic THEN "new_panicked" ELSE "ready"
    /\ UNCHANGED <<scheme, key, pt, nonce, aad, buffer, tag, tamper, dec, prfOut>>
    /\ UNCHANGED <<callVars, padVars>>

PrfCall ==
    /\ ~IsAead
    /\ phase \in {"ready", "called"}
    /\ \E msg \in Nonces :
          /\ nonce' = Ref(msg)
          /\ prfOut' = IF scheme.kind = "CxPrf"
                       THEN CxPrf_prf(prfInst.ciph, AesGcmNonceSize, msg)
                       ELSE HkdfComPrf_prf(prfInst, msg)
    /\ phase' = IF prfOut'.panic THEN "prf_panicked" ELSE "called"
    /\ UNCHANGED <<scheme, key, pt, aad, buffer, tag, tamper, dec, prfInst>>
    /\ UNCHANGED <<callVars, padVars>>

(***************************************************************************)
(* The AEADs.                                                               *)
(***************************************************************************)
\* The sender calls encrypt_in_place_detached on the buffer holding pt.
Encrypt ==
    /\ IsAead
    /\ phase = "fresh"
    /\ LET e == Aead_encrypt(scheme, Aead_new(scheme, Unref(key)), Unref(nonce),
                             Unref(aad), Unref(buffer))
       IN  /\ buffer' = Ref(e.buf)
           /\ tag' = Ref(e.tag)
           /\ phase' = IF e.res = "Ok" THEN "sealed" ELSE "failed"
    /\ UNCHANGED <<scheme, key, pt, nonce, aad, tamper, dec, prfInst, prfOut>>
    /\ UNCHANGED <<callVars, padVars>>

\* The key the inner UtC is built from, and what its PRF gives for the nonce.
InnerKey(s, k, n, a) ==
    CASE s.kind = "Utc"     -> k
      [] s.kind = "HkdfHte" -> HkdfHte_enc_key(HkdfHte_new(s.ciph, s.H, k), n, a).okm
      [] s.kind = "MacHte"  -> MacHte_enc_key(MacHte_new(s.ciph, s.H, k), n, a)

InnerPrf(s, k, n, a) ==
    CxPrf_prf(Ciph_new(s.ciph, InnerKey(s, k, n, a)), AesGcmNonceSize, n)

\* The associated data the inner AES-GCM sees.
InnerAad(s, a) == IF s.kind = "Utc" THEN a ELSE << >>

\* The adversary picks a second context and builds an AES-GCM ciphertext and
\* tag that the GCM keys of both contexts accept, with the commitment of one.
Forge ==
    /\ IsAead
    /\ phase = "fresh"
    /\ pt = << >>
    /\ \E k2 \in Keys(scheme), a2 \in Aads, c \in {1, 2} :
          /\ <<k2, a2>> # <<Unref(key), Unref(aad)>>
          /\ InnerAad(scheme, a2) = InnerAad(scheme, Unref(aad))
          /\ LET p1  == InnerPrf(scheme, Unref(key), Unref(nonce), Unref(aad))
                 p2  == InnerPrf(scheme, k2, Unref(nonce), a2)
                 col == GcmCollision(p1.mask, p2.mask, Unref(nonce),
                                     InnerAad(scheme, Unref(aad)))
             IN  /\ buffer' = Ref(col.ct)
                 /\ tag' = Ref(pack_tag(scheme.ciph, col.tag,
                                        IF c = 1 THEN p1.com ELSE p2.com))
    /\ phase' = "forged"
    /\ UNCHANGED <<scheme, key, pt, nonce, aad, tamper, dec, prfInst, prfOut>>
    /\ UNCHANGED <<callVars, padVars>>

FlipRef(r, pos, bit) == Ref(FlipAt(Unref(r), pos, bit))

Flipped(field, pos, bit) ==
    [kind |-> "flip", field |-> field, pos |-> pos, bit |-> bit]

\* One bit of the message in flight is flipped.
Flip ==
    /\ phase = "sealed"
    /\ tamper = NoTamper
    /\ dec = NoDec
    /\ \E bit \in Bits :
          \/ \E pos \in 1..Len(Unref(buffer)) :
                /\ buffer' = FlipRef(buffer, pos, bit)
                /\ tamper' = Flipped("ct", pos, bit)
                /\ UNCHANGED <<tag, nonce, aad>>
          \/ \E pos \in 1..Len(Unref(tag)) :
                /\ tag' = FlipRef(tag, pos, bit)
                /\ tamper' = Flipped("tag", pos, bit)
                /\ UNCHANGED <<buffer, nonce, aad>>
          \/ \E pos \in 1..Len(Unref(nonce)) :
                /\ nonce' = FlipRef(nonce, pos, bit)
                /\ tamper' = Flipped("nonce", pos, bit)
                /\ UNCHANGED <<buffer, tag, aad>>
          \/ \E pos \in 1..Len(Unref(aad)) :
                /\ aad' = FlipRef(aad, pos, bit)
                /\ tamper' = Flipped("aad", pos, bit)
                /\ UNCHANGED <<buffer, tag, nonce>>
    /\ UNCHANGED <<scheme, key, pt, phase, dec, prfInst, prfOut>>
    /\ UNCHANGED <<callVars, padVars>>

\* The contexts the recipients hold: every key, with the nonce and associated
\* data of the message; when the message was not altered in flight, also with
\* every other nonce and associated data the model knows.
Contexts ==
    IF tamper = NoTamper
    THEN [key   : {Ref(k) : k \in Keys(scheme)},
          nonce : {Ref(n) : n \in Nonces} \cup {nonce},
          aad   : {Ref(a) : a \in Aads} \cup {aad}]
    ELSE [key : {Ref(k) : k \in Keys(scheme)}, nonce : {nonce}, aad : {aad}]

\* One recipient's call of decrypt_in_place_detached on its copy of the message.
DecryptUnder(c) ==
    LET d == Aead_decrypt(scheme, Aead_new(scheme, Unref(c.key)), Unref(c.nonce),
                          Unref(c.aad), Unref(buffer), Unref(tag))
    IN  [d EXCEPT !.buf = Ref(d.buf)]

Decrypt ==
    /\ phase \in {"sealed", "forged"}
    /\ dec = NoDec
    /\ dec' = [c \in Contexts |-> DecryptUnder(c)]
    /\ UNCHANGED <<scheme, key, pt, nonce, aad, buffer, tag, phase, tamper,
                   prfInst, prfOut>>
    /\ UNCHANGED <<callVars, padVars>>

Next == PrfNew \/ PrfCall \/ Encrypt \/ Forge \/ Flip \/ Decrypt

Spec == Init /\ [][Next]_vars

(***************************************************************************)
(* Calls step by step.  One instance is built from a configuration and      *)
(* shared by two threads; each thread makes calls on it, each call on the   *)
(* thread's own buffer, and the steps of the calls interleave.  A call's    *)
(* local variables stay in its record after it returns: they are what is    *)
(* left in the memory the call used.                                        *)
(***************************************************************************)
Threads == {1, 2}

\* MacHte<UtcAes256Gcm, SimpleHmac<Sha224>>: the MAC output is shorter than
\* the key.
MacHteAes256Sha224 == [kind |-> "MacHte", ciph |-> "Aes256", H |-> "Sha224"]

\* MacHte<UtcAes128Gcm, Cmac<Aes256>>: the MAC takes 32-byte keys only.
MacHteAes128Cmac == [kind |-> "MacHte", ciph |-> "Aes128", H |-> "CmacAes256"]

CallSchemes ==
    {UtcAes128Gcm, HteUtcAes128Gcm, MacHteUtcAes128Gcm,
     MacHteAes256Sha224, MacHteAes128Cmac}
        \cup {s \in PrfSchemes : s.ciph = "Aes128"}

IsAeadKind(s) == s.kind \in {"Utc", "HkdfHte", "MacHte"}

\* Whether the type of the configuration satisfies its where clauses.
Compiles(s) == s.kind = "MacHte" => MacHteBound(s.ciph, s.H)

\* <S>::new(&key)
New(s, k) ==
    CASE s.kind = "CxPrf"      -> CxPrf_new(s.ciph, k)
      [] s.kind = "HkdfComPrf" -> HkdfComPrf_new(s.H, KeySize(s.ciph), k)
      [] OTHER                 -> Aead_new(s, k)

\* The key of the instance: 01 00 .. 00.
CallKey(s) == KeyBytes(SchemeKeySize(s), 1)

CallNonce(k) == KeyBytes(AesGcmNonceSize, k)

CallAad == Ascii(<<97>>)

CallPt == Ascii(<<104>>)

\* The messages a thread hands to decrypt: one sealed under the instance's
\* key, or that message with a bit of the AES-GCM tag, of the commitment, or
\* of both flipped.
WireKinds == {"good", "bad_tag", "bad_com", "bad_both"}

Tampered(w, kind) ==
    [buf |-> w.buf,
     tag |-> CASE kind = "good"     -> w.tag
               [] kind = "bad_tag"  -> FlipAt(w.tag, 1, 0)
               [] kind = "bad_com"  -> FlipAt(w.tag, Len(w.tag), 0)
               [] kind = "bad_both" -> FlipAt(FlipAt(w.tag, 1, 0), Len(w.tag), 0)]

\* What encrypt wrote, or a message of the right sizes when it gave none.
SealedOr(e, n) ==
    IF e.res = "Ok" THEN [buf |-> e.buf, tag |-> e.tag]
    ELSE [buf |-> CallPt, tag |-> Zeros(n)]

Wire(s, kind) ==
    Tampered(SealedOr(Aead_encrypt(s, Aead_new(s, CallKey(s)), CallNonce(0),
                                   CallAad, CallPt),
                      AeadTagSize(s)),
             kind)

\* The calls a thread may make on an instance of s.
Requests(s) ==
    IF IsAeadKind(s)
    THEN {[op |-> "enc", kind |-> "none"]}
             \cup {[op |-> "dec", kind |-> k] : k \in WireKinds}
    ELSE {[op |-> "prf", kind |-> k] : k \in {"msg0", "msg1"}}

IdleCall ==
    [op |-> "none", kind |-> "none", pc |-> "idle", nonce |-> << >>,
     aad |-> << >>, input |-> << >>, tag |-> << >>, enc_key |-> << >>,
     gcm_tag |-> << >>, prf_com |-> << >>, expected_prf_com |-> << >>,
     prf_mask |-> << >>, decryption_success |-> FALSE, com_matches |-> FALSE,
     res |-> "none", trace |-> << >>]

FirstPc(s, op) ==
    CASE op = "prf"      -> "prf_call"
      [] s.kind # "Utc"  -> "derive"
      [] op = "enc"      -> "prf"
      [] OTHER           -> "unpack"

\* The arguments of a call, as the caller set them up: w is the message the
\* call is given.
CallOn(s, r, w) ==
    [IdleCall EXCEPT
        !.op = r.op, !.kind = r.kind, !.pc = FirstPc(s, r.op),
        !.nonce = Ref(CallNonce(IF r.kind = "msg1" THEN 1 ELSE 0)),
        !.aad = IF r.op = "prf" THEN << >> ELSE Ref(CallAad),
        !.input = Ref(w.buf),
        !.tag = Ref(w.tag)]

NewCall(s, r) ==
    CallOn(s, r, CASE r.op = "dec" -> Wire(s, r.kind)
                   [] r.op = "enc" -> [buf |-> CallPt, tag |-> << >>]
                   [] OTHER        -> [buf |-> << >>, tag |-> << >>])

\* Variant: every call works in the buffer of thread 1.
BufferOf_shared(t) == CHOOSE u \in Threads : \A v \in Threads : u <= v

\* buffer: &mut [u8], the buffer a call was given: the caller's own.
BufferOf(t) == t

\* Variant: a call leaves the instance re-keyed.
SelfAfter_rekeyed(obj) ==
    IF "key" \in DOMAIN obj THEN [obj EXCEPT !.key = Zeros(Len(@))] ELSE obj

\* &self: what a call leaves of the instance it was made on.
SelfAfter(obj) == obj

\* Variant: the check passes when either flag is set.
AuthOk_either(decryption_success, com_matches) ==
    decryption_success \/ com_matches

\* (decryption_success & com_matches).unwrap_u8() == 1
AuthOk(decryption_success, com_matches) == decryption_success /\ com_matches

CallInit ==
    /\ scheme \in CallSchemes
    /\ key = Ref(CallKey(scheme))
    /\ phase = "unbuilt"
    /\ inst = NoPrf
    /\ bufs = [t \in Threads |-> << >>]
    /\ calls = [t \in Threads |-> IdleCall]
    /\ pt = << >> /\ nonce = << >> /\ aad = << >> /\ buffer = << >> /\ tag = << >>
    /\ tamper = NoTamper /\ dec = NoDec /\ prfInst = NoPrf /\ prfOut = NoPrf
    /\ msgSize = AesGcmNonceSize /\ outs = {}

mainVars ==
    <<pt, nonce, aad, buffer, tag, tamper, dec, prfInst, prfOut, msgSize, outs>>

\* A configuration that does not compile gives no instance; else new runs.
Construct ==
    /\ phase = "unbuilt"
    /\ IF Compiles(scheme)
       THEN /\ inst' = New(scheme, Unref(key))
            /\ phase' = "live"
       ELSE /\ inst' = inst
            /\ phase' = "rejected"
    /\ UNCHANGED <<scheme, key, bufs, calls, mainVars>>

\* Thread t starts call c on its buffer.
Begin(t, c) ==
    /\ calls' = [calls EXCEPT ![t] = c]
    /\ bufs' = [bufs EXCEPT ![BufferOf(t)] = c.input]
    /\ inst' = SelfAfter(inst)
    /\ UNCHANGED <<scheme, key, phase, mainVars>>

StartCall ==
    \E t \in Threads, r \in Requests(scheme) :
       /\ phase = "live"
       /\ calls[t].pc \in {"idle", "returned"}
       /\ Begin(t, NewCall(scheme, r))

\* What dropping the instance leaves in its memory.  MacHte implements
\* Zeroize, which a caller may invoke; no type of the crate implements Drop.
drop_in_place(obj) == obj

\* The UtC instance the steps of a call work on: self for UtC, the local
\* ciph = A::new(&enc_key) for the HtE transforms.
InnerSelf(c) ==
    IF scheme.kind = "Utc" THEN inst ELSE Utc_new(scheme.ciph, Unref(c.enc_key))

\* let gcm = AesGcm::<Ciph, U12>::new(&prf_mask);
GcmOf(c) == AesGcm_new(scheme.ciph, Unref(c.prf_mask))

\* One step of the call of thread t: its locals become c, its buffer b.
Step(t, c, b) ==
    /\ calls' = [calls EXCEPT ![t] = c]
    /\ bufs' = [bufs EXCEPT ![BufferOf(t)] = b]
    /\ inst' = SelfAfter(inst)
    /\ UNCHANGED <<scheme, key, phase, mainVars>>

At(c, pc, step) == [c EXCEPT !.pc = pc, !.trace = Append(@, step)]

Return(c, res, step) == [At(c, "returned", step) EXCEPT !.res = res]

Panicked(c, step) == [At(c, "panicked", step) EXCEPT !.res = "Panic"]

\* The buffer thread t's call works on.
Buf(t) == bufs[BufferOf(t)]

Running(t, pc) == phase = "live" /\ calls[t].pc = pc

\* enc_key derived (ok) or the derivation panicked.
Derived(t, c, ok, enc_key) ==
    IF ~ok
    THEN Step(t, Panicked(c, "derive"), Buf(t))
    ELSE Step(t, [At(c, FirstPc(UtcAes128Gcm, c.op), "derive") EXCEPT
                     !.enc_key = Ref(enc_key)],
              Buf(t))

\* The HtE transforms derive the key of the inner cipher.
Derive ==
    \E t \in Threads :
       /\ Running(t, "derive")
       /\ IF scheme.kind = "HkdfHte"
          THEN Derived(t, calls[t],
                       HkdfHte_enc_key(inst, Unref(calls[t].nonce),
                                       Unref(calls[t].aad)).ok,
                       HkdfHte_enc_key(inst, Unref(calls[t].nonce),
                                       Unref(calls[t].aad)).okm)
          ELSE Derived(t, calls[t],
                       MacAcceptsKey(inst.H, Len(inst.mac_key)),
                       MacHte_enc_key(inst, Unref(calls[t].nonce),
                                      Unref(calls[t].aad)))

Unpacked(t, c, u) ==
    Step(t, [At(c, "prf", "unpack") EXCEPT
                !.gcm_tag = Ref(u[1]), !.prf_com = Ref(u[2])],
         Buf(t))

\* let (gcm_tag, prf_com) = unpack_tag::<Ciph>(tag);
Unpack ==
    \E t \in Threads :
       /\ Running(t, "unpack")
       /\ Unpacked(t, calls[t], unpack_tag(scheme.ciph, Unref(calls[t].tag)))

PrfDone(t, c, p) ==
    IF p.panic
    THEN Step(t, Panicked(c, "prf"), Buf(t))
    ELSE IF c.op = "enc"
    THEN Step(t, [At(c, "gcm_encrypt", "prf") EXCEPT
                     !.prf_com = Ref(p.com), !.prf_mask = Ref(p.mask)],
              Buf(t))
    ELSE Step(t, [At(c, "clobber", "prf") EXCEPT
                     !.expected_prf_com = Ref(p.com), !.prf_mask = Ref(p.mask)],
              Buf(t))

\* let (.., prf_mask) = cx_prf.prf(nonce);
Prf ==
    \E t \in Threads :
       /\ Running(t, "prf")
       /\ PrfDone(t, calls[t],
                  CxPrf_prf(InnerSelf(calls[t]), AesGcmNonceSize,
                            Unref(calls[t].nonce)))

Clobbered(t, c, d) ==
    IF ~d.ok
    THEN Step(t, Return(c, "Err", "clobber"), Buf(t))
    ELSE Step(t, [At(c, "compare", "clobber") EXCEPT
                     !.decryption_success = d.success],
              Ref(d.buf))

\* let decryption_success = gcm.clobbering_decrypt(nonce, aad, buffer, gcm_tag)?;
Clobber ==
    \E t \in Threads :
       /\ Running(t, "clobber")
       /\ Clobbered(t, calls[t],
                    AesGcm_clobbering_decrypt(GcmOf(calls[t]), Unref(calls[t].nonce),
                        InnerAad(scheme, Unref(calls[t].aad)), Unref(Buf(t)),
                        Unref(calls[t].gcm_tag)))

Compared(t, c, com_matches) ==
    Step(t, [At(c, "decide", "compare") EXCEPT !.com_matches = com_matches], Buf(t))

\* let com_matches = prf_com.ct_eq(&expected_prf_com);
Compare ==
    \E t \in Threads :
       /\ Running(t, "compare")
       /\ Compared(t, calls[t],
                   ct_eq(Unref(calls[t].prf_com), Unref(calls[t].expected_prf_com)))

Decided(t, c) ==
    IF AuthOk(c.decryption_success, c.com_matches)
    THEN Step(t, Return(c, "Ok", "decide"), Buf(t))
    ELSE Step(t, At(c, "unclobber", "decide"), Buf(t))

\* if (decryption_success & com_matches).unwrap_u8() == 1 { Ok(()) } else ..
Decide ==
    \E t \in Threads :
       /\ Running(t, "decide")
       /\ Decided(t, calls[t])

Unclobbered(t, c) ==
    Step(t, Return(c, "Err", "unclobber"),
         Ref(AesGcm_unclobber(GcmOf(c), Unref(c.nonce), Unref(Buf(t)),
                              Unref(c.gcm_tag))))

\* gcm.unclobber(nonce, buffer, gcm_tag); Err(Error)
Unclobber ==
    \E t \in Threads :
       /\ Running(t, "unclobber")
       /\ Unclobbered(t, calls[t])

GcmEncrypted(t, c, e) ==
    IF ~e.ok
    THEN Step(t, Return(c, "Err", "gcm_encrypt"), Buf(t))
    ELSE Step(t, [At(c, "pack", "gcm_encrypt") EXCEPT !.gcm_tag = Ref(e.tag)],
              Ref(e.buf))

\* let gcm_tag = gcm.encrypt_in_place_detached(nonce, associated_data, buffer)?;
GcmEncrypt ==
    \E t \in Threads :
       /\ Running(t, "gcm_encrypt")
       /\ GcmEncrypted(t, calls[t],
                       AesGcm_encrypt_in_place_detached(GcmOf(calls[t]),
                           Unref(calls[t].nonce),
                           InnerAad(scheme, Unref(calls[t].aad)), Unref(Buf(t))))

Packed(t, c) ==
    Step(t, [Return(c, "Ok", "pack") EXCEPT
                !.tag = Ref(pack_tag(scheme.ciph, Unref(c.gcm_tag),
                                     Unref(c.prf_com)))],
         Buf(t))

\* Ok(pack_tag::<Ciph>(gcm_tag, prf_com))
Pack ==
    \E t \in Threads :
       /\ Running(t, "pack")
       /\ Packed(t, calls[t])

PrfReturned(t, c, p) ==
    IF p.panic
    THEN Step(t, Panicked(c, "prf_call"), Buf(t))
    ELSE Step(t, [Return(c, "Ok", "prf_call") EXCEPT
                     !.prf_com = Ref(p.com), !.prf_mask = Ref(p.mask)],
              Buf(t))

\* <P as CommittingPrf>::prf(&self, msg), on its own.
Prf_prf(s, self, msg) ==
    IF s.kind = "CxPrf"
    THEN CxPrf_prf(self.ciph, AesGcmNonceSize, msg)
    ELSE HkdfComPrf_prf(self, msg)

\* A prf() call on a committing PRF instance.
PrfStep ==
    \E t \in Threads :
       /\ Running(t, "prf_call")
       /\ PrfReturned(t, calls[t], Prf_prf(scheme, inst, Unref(calls[t].nonce)))

\* The owner drops the instance once no call is in progress.
DropInstance ==
    /\ phase = "live"
    /\ \A t \in Threads : calls[t].pc \in {"idle", "returned", "panicked"}
    /\ inst' = drop_in_place(inst)
    /\ phase' = "dropped"
    /\ UNCHANGED <<scheme, key, bufs, calls, mainVars>>

CallNext ==
    \/ Construct \/ StartCall \/ Derive \/ Unpack \/ Prf \/ Clobber \/ Compare
    \/ Decide \/ Unclobber \/ GcmEncrypt \/ Pack \/ PrfStep \/ DropInstance

CallSpec == CallInit /\ [][CallNext]_vars

(***************************************************************************)
(* CxPrf<Ciph, MsgSize> for message sizes around the block size: prf() is   *)
(* called on messages of MsgSize bytes and what it returns is kept, message *)
(* by message.                                                              *)
(***************************************************************************)
\* MsgSize: U12 (the nonce of the AEADs), U15, U16 and U17.
MsgSizes == {AesGcmNonceSize, BlockSize - 1, BlockSize, BlockSize + 1}

PadSchemes == {s \in PrfSchemes : s.kind = "CxPrf" /\ s.ciph # "Aes192"}

\* Messages of n bytes: all zero, 01 in the first byte, 01 in the last byte.
PadMsgs(n) == {KeyBytes(n, k) : k \in {0, 1, n}}

PadInit ==
    /\ scheme \in PadSchemes
    /\ key \in {Ref(k) : k \in Keys(scheme)}
    /\ msgSize \in MsgSizes
    /\ phase = "fresh"
    /\ outs = {}
    /\ pt = << >> /\ nonce = << >> /\ aad = << >> /\ buffer = << >> /\ tag = << >>
    /\ tamper = NoTamper /\ dec = NoDec /\ prfInst = NoPrf /\ prfOut = NoPrf
    /\ inst = NoPrf /\ bufs = << >> /\ calls = << >>

PadNew ==
    /\ phase = "fresh"
    /\ prfInst' = CxPrf_new(scheme.ciph, Unref(key))
    /\ phase' = "ready"
    /\ UNCHANGED <<scheme, key, pt, nonce, aad, buffer, tag, tamper, dec, prfOut>>
    /\ UNCHANGED <<callVars, padVars>>

\* What prf(msg) returned, or that it panicked.
PrfOutcome(msg, p) ==
    [msg |-> Ref(msg), panic |-> p.panic, com |-> Ref(p.com), mask |-> Ref(p.mask)]

PadCalled(o) ==
    /\ outs' = outs \cup {o}
    /\ phase' = IF o.panic THEN "prf_panicked" ELSE "called"
    /\ UNCHANGED <<scheme, key, pt, nonce, aad, buffer, tag, tamper, dec, prfInst,
                   prfOut, msgSize>>
    /\ UNCHANGED callVars

PadPrf ==
    \E msg \in PadMsgs(msgSize) :
       /\ phase \in {"ready", "called"}
       /\ PadCalled(PrfOutcome(msg, CxPrf_prf(prfInst.ciph, msgSize, msg)))

PadNext == PadNew \/ PadPrf

PadSpec == PadInit /\ [][PadNext]_vars

(***************************************************************************)
(* Properties.                                                              *)
(***************************************************************************)
\* The context the sender sealed under, with the nonce and associated data as
\* they arrive.
SentCtx == [key |-> key, nonce |-> nonce, aad |-> aad]

Decrypted == dec # NoDec

Honest == phase = "sealed" /\ tamper = NoTamper

\* What the caller of decrypt_in_place_detached can see of a call.
Observable(d) == <<d.res, d.buf>>

\* C1: for each of the four constructions (the two UtC ciphers, HkdfHte over
\* UtC, MacHte over UtC), decrypting what encrypt produced, under the same
\* key, nonce and associated data, succeeds and leaves the original plaintext
\* in the buffer.
C1_RoundTrip ==
    (Honest /\ Decrypted) =>
        /\ dec[SentCtx].res = "Ok"
        /\ dec[SentCtx].buf = pt

C1_Witness ==
    /\ Honest /\ Decrypted
    /\ scheme = HteUtcAes256Gcm
    /\ Len(Unref(pt)) = MaxPtLen
    /\ Len(Unref(aad)) = MaxAadLen
    /\ buffer # pt
    /\ dec[SentCtx].res = "Ok"

\* C2: whenever decryption fails to authenticate, in UtC or in an HtE
\* wrapper, the buffer holds on return exactly the ciphertext it held on
\* entry.
C2_BufferRestored ==
    Decrypted =>
        \A c \in DOMAIN dec :
            dec[c].res = "Err" => dec[c].buf = buffer

C2_Witness ==
    /\ Decrypted
    /\ scheme.kind = "MacHte"
    /\ Len(Unref(buffer)) > 0
    /\ \E c \in DOMAIN dec :
          /\ dec[c].res = "Err"
          /\ dec[c].unclobbered
          /\ dec[c].buf = buffer

\* C3: after one bit of the ciphertext, of the tag (AES-GCM part or
\* commitment part), of the nonce or of the associated data is flipped,
\* decryption fails; no recipient gets Ok.
C3_TamperDetected ==
    (phase = "sealed" /\ tamper.kind = "flip" /\ Decrypted) =>
        \A c \in DOMAIN dec : dec[c].res = "Err"

C3_Witness ==
    /\ phase = "sealed" /\ Decrypted
    /\ tamper.kind = "flip"
    /\ tamper.field = "tag"
    /\ tamper.pos > AesGcmTagSize
    /\ dec[SentCtx].res = "Err"
    /\ dec[SentCtx].decryption_success
    /\ ~dec[SentCtx].com_matches

\* C4: for a UtC cipher and a fixed (nonce, associated data, ciphertext,
\* tag), no two distinct keys both decrypt successfully, even when the
\* AES-GCM part was built to verify under both; and what one key sealed, an
\* instance under another key rejects with a commitment mismatch.
C4_KeyCommitment ==
    (scheme.kind = "Utc" /\ Decrypted) =>
        /\ \A c1, c2 \in DOMAIN dec :
              (/\ c1.key # c2.key
               /\ c1.nonce = c2.nonce
               /\ c1.aad = c2.aad
               /\ dec[c1].res = "Ok") => dec[c2].res = "Err"
        /\ Honest =>
              \A c \in DOMAIN dec :
                  (c.key # key /\ c.nonce = nonce) =>
                      /\ dec[c].res = "Err"
                      /\ ~dec[c].com_matches

C4_Witness ==
    /\ scheme.kind = "Utc" /\ Decrypted
    /\ phase = "forged"
    /\ \E c1, c2 \in DOMAIN dec :
          /\ c1.key # c2.key
          /\ c1.nonce = c2.nonce
          /\ c1.aad = c2.aad
          /\ dec[c1].res = "Ok"
          /\ dec[c2].res = "Err"
          /\ dec[c2].decryption_success
          /\ ~dec[c2].com_matches

\* C5: for HkdfHte and MacHte over UtC, at most one context (key, nonce,
\* associated data) decrypts a given (ciphertext, tag) successfully; two
\* contexts that differ anywhere derive different inner keys.
C5_ContextCommitment ==
    (scheme.kind \in {"HkdfHte", "MacHte"} /\ Decrypted) =>
        \A c1, c2 \in DOMAIN dec :
            c1 # c2 =>
                /\ ~(dec[c1].res = "Ok" /\ dec[c2].res = "Ok")
                /\ InnerKey(scheme, Unref(c1.key), Unref(c1.nonce), Unref(c1.aad))
                       # InnerKey(scheme, Unref(c2.key), Unref(c2.nonce), Unref(c2.aad))

C5_Witness ==
    /\ scheme.kind \in {"HkdfHte", "MacHte"} /\ Decrypted
    /\ phase = "forged"
    /\ \E c1, c2 \in DOMAIN dec :
          /\ c1.key = c2.key
          /\ c1.nonce = c2.nonce
          /\ c1.aad # c2.aad
          /\ dec[c1].res = "Ok"
          /\ dec[c2].res = "Err"
          /\ dec[c2].decryption_success
          /\ ~dec[c2].com_matches

\* C6: a decryption that fails on the AES-GCM tag, one that fails on the
\* commitment and one that fails on both give the caller the same thing: the
\* one error value, and the buffer holding the ciphertext it was called with.
C6_UniformFailure ==
    Decrypted =>
        \A c1, c2 \in DOMAIN dec :
            (dec[c1].res # "Ok" /\ dec[c2].res # "Ok") =>
                /\ Observable(dec[c1]) = Observable(dec[c2])
                /\ Observable(dec[c1]) = <<"Err", buffer>>

C6_Witness ==
    /\ Decrypted
    /\ Len(Unref(buffer)) > 0
    /\ \E c1, c2 \in DOMAIN dec :
          /\ dec[c1].res = "Err" /\ dec[c2].res = "Err"
          /\ dec[c1].decryption_success /\ ~dec[c1].com_matches
          /\ ~dec[c2].decryption_success /\ ~dec[c2].com_matches
          /\ Observable(dec[c1]) = Observable(dec[c2])

\* A cipher whose key size is not a multiple of its block size.
OddCipher == scheme.kind = "CxPrf" /\ KeySize(scheme.ciph) % BlockSize # 0

C8_KeySizes ==
    IsAead =>
        /\ UtcKeySize(scheme.ciph) = CxKeySize(scheme.ciph)
        /\ UtcKeySize(scheme.ciph) = AesGcmKeySize(scheme.ciph)
        /\ Len(Unref(key)) = AesGcmKeySize(scheme.ciph)
        /\ Honest =>
              LET k == InnerKey(scheme, Unref(key), Unref(nonce), Unref(aad))
                  p == InnerPrf(scheme, Unref(key), Unref(nonce), Unref(aad))
              IN  /\ Len(k) = UtcKeySize(scheme.ciph)
                  /\ Len(p.mask) = Len(k)
                  /\ Len(p.com) = 2 * Len(k)

C8_Witness ==
    /\ scheme = UtcAes256Gcm
    /\ Honest
    /\ Len(Unref(key)) = KeySize("Aes256")
    /\ Len(Unref(tag)) = AesGcmTagSize + 2 * Len(Unref(key))

\* C8 (as written): the UtC key size equals the PRF key size and is exactly
\* twice the base AEAD key size.
C8_TwiceBaseKey ==
    IsAead =>
        /\ UtcKeySize(scheme.ciph) = CxKeySize(scheme.ciph)
        /\ UtcKeySize(scheme.ciph) = 2 * AesGcmKeySize(scheme.ciph)

\* C9: pack_tag gives the AES-GCM tag followed by the commitment, of total
\* length base tag size plus commitment size; unpack_tag splits at the base
\* tag size; each undoes the other.
C9_TagFormat ==
    (IsAead /\ phase \in {"sealed", "forged"}) =>
        LET t == Unref(tag)
            g == SubSeq(t, 1, AesGcmTagSize)
            c == SubSeq(t, AesGcmTagSize + 1, Len(t))
            p == InnerPrf(scheme, Unref(key), Unref(nonce), Unref(aad))
        IN  /\ Len(t) = AesGcmTagSize + CxComSize(scheme.ciph)
            /\ Len(pack_tag(scheme.ciph, g, c)) = Len(g) + Len(c)
            /\ pack_tag(scheme.ciph, g, c) = g \o c
            /\ unpack_tag(scheme.ciph, pack_tag(scheme.ciph, g, c)) = <<g, c>>
            /\ pack_tag(scheme.ciph, unpack_tag(scheme.ciph, t)[1],
                        unpack_tag(scheme.ciph, t)[2]) = t
            /\ Honest => unpack_tag(scheme.ciph, t)[2] = p.com

C9_Witness ==
    /\ scheme = UtcAes128Gcm
    /\ Honest
    /\ Len(Unref(tag)) = AesGcmTagSize + CxComSize("Aes128")
    /\ LET p == InnerPrf(scheme, Unref(key), Unref(nonce), Unref(aad))
       IN  Unref(tag) = pack_tag(scheme.ciph, SubSeq(Unref(tag), 1, AesGcmTagSize),
                                 p.com)

\* C10: for CX-PRF and for HKDF-ComPRF the commitment is twice as long as the
\* mask, and the mask is as long as a key of the base AES-GCM that is keyed
\* with it.
C10_ComTwiceMask ==
    /\ CxComSize(scheme.ciph) = 2 * CxMaskSize(scheme.ciph)
    /\ CxMaskSize(scheme.ciph) = AesGcmKeySize(scheme.ciph)
    /\ HkdfComPrfComSize(KeySize(scheme.ciph)) = 2 * KeySize(scheme.ciph)
    /\ phase = "called" =>
          /\ Len(prfOut.com) = 2 * Len(prfOut.mask)
          /\ Len(prfOut.mask) = AesGcmKeySize(scheme.ciph)
    /\ Honest =>
          LET p == InnerPrf(scheme, Unref(key), Unref(nonce), Unref(aad))
          IN  /\ Len(p.com) = 2 * Len(p.mask)
              /\ Len(p.mask) = AesGcmKeySize(scheme.ciph)

C10_Witness ==
    /\ scheme.kind = "HkdfComPrf"
    /\ scheme.ciph = "Aes256"
    /\ phase = "called"
    /\ Len(prfOut.com) = 2 * KeySize("Aes256")
    /\ Len(prfOut.mask) = KeySize("Aes256")

\* The key the instance was built from, and the instance as new built it.
Fresh == New(scheme, Unref(key))

Done(c) == c.pc \in {"returned", "panicked"}

\* The call of record c made alone, in one piece, on a fresh instance.
AloneDec(c) ==
    Aead_decrypt(scheme, Fresh, Unref(c.nonce), Unref(c.aad), Unref(c.input),
                 Unref(c.tag))

AloneEnc(c) ==
    Aead_encrypt(scheme, Fresh, Unref(c.nonce), Unref(c.aad), Unref(c.input))

DecSame(t, c, a) == c.res = a.res /\ bufs[t] = Ref(a.buf)

EncSame(t, c, a) == c.res = a.res /\ bufs[t] = Ref(a.buf) /\ c.tag = Ref(a.tag)

SameAsAlone(t, c) ==
    CASE c.op = "dec" -> DecSame(t, c, AloneDec(c))
      [] c.op = "enc" -> EncSame(t, c, AloneEnc(c))
      [] OTHER        -> TRUE

\* C11: when the encrypt and decrypt calls of several threads on one instance
\* interleave step by step, each on its own buffer, every call ends with the
\* result and the final buffer it has when run alone; the buffer of a thread
\* that made no call, and the instance, are never written.
C11_Interleaved ==
    \A t \in Threads :
       /\ Done(calls[t]) => SameAsAlone(t, calls[t])
       /\ calls[t].pc = "idle" => bufs[t] = << >>
       /\ phase = "live" => inst = Fresh

\* Thread 1's decrypt has failed and restored its buffer while thread 2's
\* decrypt, of another message, holds candidate plaintext in its own buffer.
C11_Witness ==
    /\ scheme = MacHteUtcAes128Gcm
    /\ calls[1].pc = "returned" /\ calls[1].op = "dec" /\ calls[1].res = "Err"
    /\ calls[1].kind = "bad_com"
    /\ calls[2].pc = "unclobber" /\ calls[2].kind = "bad_tag"
    /\ bufs[1] = calls[1].input
    /\ bufs[2] # calls[2].input

\* A byte string that holds nothing but zeros.
Wiped(r) == \A i \in 1..Len(Unref(r)) : Unref(r)[i] = CB(0)

\* C12: the key a call derived (the mask of UtC, the enc_key of the HtE
\* transforms) holds only zeros once the call has returned, on success and on
\* failure alike, and the MAC key of a MacHte instance holds only zeros once
\* the instance has been dropped.
C12_KeysWiped ==
    /\ \A t \in Threads :
          (Done(calls[t]) /\ calls[t].op \in {"enc", "dec"}) =>
              Wiped(calls[t].prf_mask) /\ Wiped(calls[t].enc_key)
    /\ (phase = "dropped" /\ scheme.kind = "MacHte") => Wiped(Ref(inst.mac_key))

\* The enc_key of MacHte call c is the digest's first A::KeySize bytes, all of
\* them inside the digest.
TruncatedWithin(c, digest) ==
    /\ AeadKeySize(scheme) <= Len(digest)
    /\ Len(digest) = OutputSize(scheme.H)
    /\ Unref(c.enc_key) = SubSeq(digest, 1, AeadKeySize(scheme))
    /\ Len(Unref(c.enc_key)) = AeadKeySize(scheme)

\* C13: a MacHte pairing whose MAC output is shorter than the key of the
\* inner AEAD gives no instance and no call ever starts on it; on every
\* instance that exists, the enc_key is the first A::KeySize bytes of the
\* digest and that range lies within the digest.
C13_MacOutputLength ==
    scheme.kind = "MacHte" =>
       /\ (phase # "unbuilt" /\ OutputSize(scheme.H) < AeadKeySize(scheme)) =>
             /\ phase = "rejected"
             /\ inst = NoPrf
             /\ \A t \in Threads : calls[t] = IdleCall /\ bufs[t] = << >>
       /\ \A t \in Threads :
             calls[t].enc_key # << >> =>
                TruncatedWithin(calls[t],
                    SimpleHmac_digest(scheme.H, inst.mac_key,
                        Unref(calls[t].nonce) \o Unref(calls[t].aad)))

\* MacHte<UtcAes256Gcm, SimpleHmac<Sha224>> (28 < 32) has been rejected.
C13_Witness ==
    /\ scheme = MacHteAes256Sha224
    /\ OutputSize(scheme.H) < AeadKeySize(scheme)
    /\ phase = "rejected"

\* The MAC of the configuration takes no key of the inner AEAD's key length.
KeyLengthMismatch ==
    scheme.kind = "MacHte" /\ ~MacAcceptsKey(scheme.H, AeadKeySize(scheme))

\* C14: when the MAC does not accept a key of the inner AEAD's key length,
\* new fails, so that no instance of the configuration is ever live, and no
\* encrypt or decrypt call panics.
C14_FailsAtNew ==
    KeyLengthMismatch =>
       /\ phase \in {"unbuilt", "rejected"}
       /\ \A t \in Threads : calls[t].pc # "panicked"

\* What a finished call handed back: result, buffer, tag, commitment and mask.
Returned(t) ==
    <<calls[t].res, bufs[t], calls[t].tag, calls[t].prf_com, calls[t].prf_mask>>

SameArguments(c, d) ==
    /\ c.op = d.op /\ c.nonce = d.nonce /\ c.aad = d.aad
    /\ c.input = d.input
    /\ c.op = "dec" => c.tag = d.tag

PrfSame(c, p) ==
    IF p.panic THEN c.res = "Panic"
    ELSE c.res = "Ok" /\ c.prf_com = Ref(p.com) /\ c.prf_mask = Ref(p.mask)

SameAsOnFresh(t, c) ==
    CASE c.op = "dec" -> DecSame(t, c, AloneDec(c))
      [] c.op = "enc" -> EncSame(t, c, AloneEnc(c))
      [] c.op = "prf" -> PrfSame(c, Prf_prf(scheme, Fresh, Unref(c.nonce)))

UtcDecSteps == <<"unpack", "prf", "clobber", "compare", "decide", "unclobber">>

\* The statements a call ran inside UtC (the HtE transforms derive first).
UtcTrace(c) ==
    IF c.trace # << >> /\ c.trace[1] = "derive" THEN Tail(c.trace) ELSE c.trace

IsPrefix(s, full) == Len(s) <= Len(full) /\ s = SubSeq(full, 1, Len(s))

Ran(c, step) == \E i \in 1..Len(c.trace) : c.trace[i] = step

\* The buffer after clobbering_decrypt: the input with the keystream XORed in.
Candidate(c) ==
    Ref(XorSeq(Unref(c.input),
               Keystream(GcmOf(c), Unref(c.nonce), Len(Unref(c.input)))))

\* The tag check of AES-GCM on the message call c was given.
TagChecks(c) ==
    GcmTagMatches(GcmOf(c), Unref(c.nonce), InnerAad(scheme, Unref(c.aad)),
                  Unref(c.input), Unref(c.gcm_tag))

UtcSealed == Honest /\ scheme.kind = "Utc"

\* prf(nonce) on the sender's key.
SenderPrf ==
    CxPrf_prf(Utc_new(scheme.ciph, Unref(key)), AesGcmNonceSize, Unref(nonce))

\* The message is what the base AEAD keyed with p.mask (gcm) makes of the
\* nonce, the associated data and the plaintext, with p.com after its tag.
BaseSealed(p, gcm, ct) ==
    /\ ~p.panic
    /\ Len(ct) = Len(Unref(pt))
    /\ ct = XorSeq(Unref(pt), Keystream(gcm, Unref(nonce), Len(Unref(pt))))
    /\ Unref(tag) = GcmTag(gcm, Unref(nonce), Unref(aad), ct) \o p.com
    /\ Len(Unref(tag)) = AesGcmTagSize + CxComSize(scheme.ciph)

\* The commitment in the tag encrypt returns for associated data a and
\* plaintext m.
ComOf(a, m) ==
    unpack_tag(scheme.ciph,
               Aead_encrypt(scheme, Aead_new(scheme, Unref(key)), Unref(nonce),
                            a, m).tag)[2]

\* C17: what UtC's encrypt returns is the output of the base AEAD, keyed with
\* the mask of prf(nonce), on the same nonce, associated data and plaintext:
\* a ciphertext as long as the plaintext and the base tag followed by the
\* commitment of prf(nonce); under one key and nonce the commitment is the
\* same for every associated data and plaintext.
C17_UtcEncrypt ==
    UtcSealed =>
       /\ BaseSealed(SenderPrf, AesGcm_new(scheme.ciph, SenderPrf.mask),
                     Unref(buffer))
       /\ \A a \in Aads, m \in Plaintexts :
             ComOf(a, m) = unpack_tag(scheme.ciph, Unref(tag))[2]

C17_Witness ==
    /\ UtcSealed
    /\ scheme = UtcAes256Gcm
    /\ Len(Unref(pt)) = MaxPtLen
    /\ Len(Unref(aad)) = MaxAadLen
    /\ buffer # pt
    /\ Len(Unref(tag)) = AesGcmTagSize + 2 * KeySize("Aes256")

CxCalled == scheme.kind = "CxPrf" /\ phase = "called"

\* X_i: the message, zero bytes, and the byte i last.
PadRef(msg, i) == msg \o Zeros(BlockSize - Len(msg) - 1) \o <<CB(i)>>

\* V_i: E_K(X_i), and for i = 1 that XOR X_1.
VRef(ciph, msg, i) ==
    IF i = 1
    THEN XorSeq(encrypt_block(ciph, PadRef(msg, 1)), PadRef(msg, 1))
    ELSE encrypt_block(ciph, PadRef(msg, i))

RECURSIVE ConcatBlocks(_, _, _, _)
\* V_from .. V_to, one after the other.
ConcatBlocks(ciph, msg, from, to) ==
    IF from > to THEN << >>
    ELSE VRef(ciph, msg, from) \o ConcatBlocks(ciph, msg, from + 1, to)

\* The cipher outputs a byte string is built from.
Atoms(s) == UNION {s[j].a : j \in 1..Len(s)}

\* C18: CX-PRF returns, for message M, com = V_1 .. V_nc and mask =
\* V_(nc+1) .. V_(nc+nm), where X_i is M, zero bytes and the byte i, V_i is
\* E_K(X_i), and V_1 alone is XORed with X_1; com and mask come from disjoint
\* blocks.
C18_CxAlgorithm ==
    CxCalled =>
       /\ prfOut.com =
             ConcatBlocks(prfInst.ciph, Unref(nonce), 1,
                          CxComSize(scheme.ciph) \div BlockSize)
       /\ prfOut.mask =
             ConcatBlocks(prfInst.ciph, Unref(nonce),
                          CxComSize(scheme.ciph) \div BlockSize + 1,
                          (CxComSize(scheme.ciph) + CxMaskSize(scheme.ciph))
                              \div BlockSize)
       /\ Atoms(prfOut.com) \cap Atoms(prfOut.mask) = {}

\* CX over AES-256 on the message 01 00 .. 00: four commitment blocks, the
\* first carrying X_1 (01 in its first byte), the second not carrying X_2.
C18_Witness ==
    /\ CxCalled
    /\ scheme.ciph = "Aes256"
    /\ nonce = Ref(KeyBytes(AesGcmNonceSize, 1))
    /\ Len(prfOut.com) = 4 * BlockSize
    /\ Len(prfOut.mask) = 2 * BlockSize
    /\ prfOut.com[1].c = 1
    /\ prfOut.com[BlockSize].c = 1
    /\ prfOut.com[2 * BlockSize].c = 0

IsHte == scheme.kind \in {"HkdfHte", "MacHte"}

\* enc_key as the claim gives it: HKDF-Expand of the extracted key with info
\* nonce || aad and length A::KeySize, or the first A::KeySize bytes of the
\* MAC of nonce || aad.
EncKeyRef(k, n, a) ==
    IF scheme.kind = "HkdfHte"
    THEN Out(Term(ExpandName(scheme.H),
                  Out(Term(ExtractName(scheme.H), HkdfHteDomainSep, k), 1,
                      OutputSize(scheme.H)),
                  n \o a),
             1, AeadKeySize(scheme))
    ELSE SubSeq(Out(Term(HmacName(scheme.H), k, n \o a), 1, OutputSize(scheme.H)),
                1, AeadKeySize(scheme))

\* The message is what the inner cipher returned.
InnerSealed(e) == e.res = "Ok" /\ buffer = Ref(e.buf) /\ tag = Ref(e.tag)

InnerResult(d) == [d EXCEPT !.buf = Ref(d.buf)]

\* The inner cipher's decrypt for the recipient with context c.
InnerDec(c) ==
    Utc_decrypt_in_place_detached(
        Utc_new(scheme.ciph, EncKeyRef(Unref(c.key), Unref(c.nonce), Unref(c.aad))),
        Unref(c.nonce), << >>, Unref(buffer), Unref(tag))

\* C19: in HkdfHte and in MacHte, encrypt and decrypt derive the same enc_key
\* from key, nonce and associated data, and what they return is what the
\* inner cipher, keyed with enc_key, returns for the same nonce and empty
\* associated data: the ciphertext and tag on encrypt, the result and the
\* buffer on decrypt.
C19_HteKeyDerivation ==
    IsHte =>
       /\ Honest =>
             InnerSealed(Utc_encrypt_in_place_detached(
                 Utc_new(scheme.ciph,
                         EncKeyRef(Unref(key), Unref(nonce), Unref(aad))),
                 Unref(nonce), << >>, Unref(pt)))
       /\ Decrypted =>
             \A c \in DOMAIN dec : dec[c] = InnerResult(InnerDec(c))

\* MacHte over UtC/AES-128 (a 32-byte digest cut to 16) has sealed a message
\* with associated data, and recipients have decrypted it, one with Ok.
C19_Witness ==
    /\ scheme = MacHteUtcAes128Gcm
    /\ Honest /\ Decrypted
    /\ Len(Unref(aad)) = MaxAadLen
    /\ Len(Unref(pt)) = MaxPtLen
    /\ dec[SentCtx].res = "Ok"
    /\ \E c \in DOMAIN dec : dec[c].res = "Err"

\* CxPrf<Aes128, U12> or CxPrf<Aes256, U12>.
CxSupported == scheme.kind = "CxPrf" /\ scheme.ciph \in {"Aes128", "Aes256"}

\* num_total_blocks of prf() over ciph.
NumTotalBlocks(ciph) ==
    (CxComSize(ciph) \div BlockSize) + (CxMaskSize(ciph) \div BlockSize)

\* C20: for CX-PRF over AES-128 and AES-256 with 12-byte messages no prf()
\* call panics; prf works on 3 and on 6 blocks, which fit the buffer of 6; the
\* counter bytes 1 .. n are stored without wrapping; com and mask have
\* exactly ComSize and MaskSize bytes.
C20_CxNeverFails ==
    CxSupported =>
       /\ phase \notin {"new_panicked", "prf_panicked"}
       /\ NumTotalBlocks(scheme.ciph) = (IF scheme.ciph = "Aes128" THEN 3 ELSE 6)
       /\ NumTotalBlocks(scheme.ciph) <= BlockBufLen
       /\ \A i \in 1..NumTotalBlocks(scheme.ciph) :
             PadBlock(AesGcmNonceSize, Unref(nonce), i)[BlockSize] = CB(i)
       /\ phase = "called" =>
             /\ ~prfOut.panic
             /\ Len(prfOut.com) = CxComSize(scheme.ciph)
             /\ Len(prfOut.mask) = CxMaskSize(scheme.ciph)
             /\ Len(Unref(nonce)) = AesGcmNonceSize

\* CX over AES-256 has returned: six blocks, the whole buffer.
C20_Witness ==
    /\ CxSupported
    /\ scheme.ciph = "Aes256"
    /\ phase = "called"
    /\ NumTotalBlocks(scheme.ciph) = BlockBufLen
    /\ Len(prfOut.com) = 64
    /\ Len(prfOut.mask) = 32

\* Distinct (message, i) pairs give distinct blocks X_i, over the messages of
\* n bytes and the counters prf() uses.
PadInjective(n) ==
    \A m1 \in PadMsgs(n), m2 \in PadMsgs(n), i1 \in 1..BlockBufLen,
       i2 \in 1..BlockBufLen :
          PadBlock(n, m1, i1) = PadBlock(n, m2, i2) => (m1 = m2 /\ i1 = i2)

\* X_i holds every byte of the message, and the counter after them.
PadKeepsMessage(n) ==
    \A m \in PadMsgs(n), i \in 1..BlockBufLen :
       /\ SubSeq(PadBlock(n, m, i), 1, n) = m
       /\ PadBlock(n, m, i)[BlockSize] = CB(i)

\* Two messages that differ in their last byte and nowhere else.
DifferInLastByteOnly(a, b) ==
    /\ Len(a) = Len(b)
    /\ a[Len(a)] # b[Len(b)]
    /\ \A j \in 1..(Len(a) - 1) : a[j] = b[j]

SameComAndMask(o1, o2) == o1.com = o2.com /\ o1.mask = o2.mask

\* C21: for a message shorter than a block, message bytes and counter byte
\* lie at different positions of X_i, distinct (message, i) give distinct
\* blocks and distinct messages get distinct com and mask; for a message of
\* exactly one block the counter replaces the last message byte: the padding
\* is not injective, and two messages differing only in that byte get the
\* same com and mask; for a longer message every prf() call fails.
C21_PadInjectivity ==
    /\ msgSize < BlockSize =>
          /\ PadInjective(msgSize)
          /\ PadKeepsMessage(msgSize)
          /\ \A o1 \in outs, o2 \in outs :
                /\ ~o1.panic
                /\ o1.msg # o2.msg => (o1.com # o2.com /\ o1.mask # o2.mask)
    /\ msgSize = BlockSize =>
          /\ ~PadInjective(msgSize)
          /\ \A o1 \in outs, o2 \in outs :
                /\ ~o1.panic
                /\ DifferInLastByteOnly(Unref(o1.msg), Unref(o2.msg)) =>
                      SameComAndMask(o1, o2)
    /\ msgSize > BlockSize =>
          /\ \A o \in outs : o.panic
          /\ phase \notin {"called"}

\* CxPrf<Aes128, U16> has been called on 00 .. 00 and on 00 .. 00 01 and has
\* returned the same com and mask for both.
C21_Witness ==
    /\ msgSize = BlockSize
    /\ scheme.ciph = "Aes128"
    /\ \E o1 \in outs, o2 \in outs :
          /\ o1.msg = Ref(KeyBytes(BlockSize, 0))
          /\ o2.msg = Ref(KeyBytes(BlockSize, BlockSize))
          /\ o1.msg # o2.msg
          /\ ~o1.panic /\ ~o2.panic
          /\ SameComAndMask(o1, o2)
          /\ Len(Unref(o1.com)) = CxComSize("Aes128")

=============================================================================
